---- MODULE Spec2Model ----
(***************************************************************************)
(* Model of the CSFloat snapshot resolver (app/csfloat_client.py), the     *)
(* name builder (app/market_name.py), the wear table (app/wear.py) and the *)
(* history aggregator (app/history.py).                                    *)
(*                                                                         *)
(* Strings are TLA+ strings.  Two glyphs of the source are written in      *)
(* ASCII: the star U+2605 is "*", the trade-mark sign U+2122 is "#".       *)
(* Neither replacement occurs anywhere else in the names of the model.     *)
(* Python's None: a slot that holds a string or None holds the string      *)
(* NoneS for None; any other optional slot holds a set, NoneV = {} for     *)
(* None and Some(v) = {v} for the value v.                                 *)
(* Amounts of money are integer cents (the source divides by 100.0 when    *)
(* it builds a Listing or a bid); float values are integer hundredths.     *)
(*                                                                         *)
(* Spec is the resolver with the fetch functions next to it.  SpecBid,     *)
(* SpecSales, SpecWear and SpecBuild call highest_bid_from_orders,         *)
(* compute_sales_24h_metrics, its wear test and build_market_hash_name on  *)
(* drawn inputs; SpecPages reads iter_listings page by page.               *)
(***************************************************************************)
EXTENDS Integers, Sequences, FiniteSets, TLC

NoneS == "<None>"

NoneV == {}

Some(v) == {v}

The(o) == CHOOSE v \in o : TRUE

(***************************************************************************)
(* str methods used by the source                                          *)
(***************************************************************************)
Upper == "ABCDEFGHIJKLMNOPQRSTUVWXYZ"

Lowers == "abcdefghijklmnopqrstuvwxyz"

\* str.lower() on one character
LowerChar(c) ==
  IF \E i \in 1..Len(Upper) : SubSeq(Upper, i, i) = c
    THEN LET i == CHOOSE j \in 1..Len(Upper) : SubSeq(Upper, j, j) = c
         IN  SubSeq(Lowers, i, i)
    ELSE c

RECURSIVE Lower(_)
\* str.lower()
Lower(s) ==
  IF Len(s) = 0 THEN ""
  ELSE LowerChar(SubSeq(s, 1, 1)) \o Lower(SubSeq(s, 2, Len(s)))

\* k in s
Contains(s, k) ==
  \E i \in 1..(Len(s) - Len(k) + 1) : SubSeq(s, i, i + Len(k) - 1) = k

\* s.startswith(k)
StartsWith(s, k) == Len(k) <= Len(s) /\ SubSeq(s, 1, Len(k)) = k

\* s.endswith(k)
EndsWith(s, k) == Len(k) <= Len(s) /\ SubSeq(s, Len(s) - Len(k) + 1, Len(s)) = k

\* s.find(k), 1-based; 0 when absent
Find(s, k) ==
  IF Contains(s, k)
    THEN CHOOSE i \in 1..(Len(s) - Len(k) + 1) :
           /\ SubSeq(s, i, i + Len(k) - 1) = k
           /\ \A j \in 1..(i - 1) : SubSeq(s, j, j + Len(k) - 1) # k
    ELSE 0

\* s.replace(old, new, 1)
ReplaceFirst(s, old, new) ==
  LET i == Find(s, old)
  IN  IF i = 0 THEN s
      ELSE SubSeq(s, 1, i - 1) \o new \o SubSeq(s, i + Len(old), Len(s))

RECURSIVE LStrip(_)
LStrip(s) ==
  IF Len(s) > 0 /\ SubSeq(s, 1, 1) = " " THEN LStrip(SubSeq(s, 2, Len(s))) ELSE s

RECURSIVE RStrip(_)
RStrip(s) ==
  IF Len(s) > 0 /\ SubSeq(s, Len(s), Len(s)) = " "
    THEN RStrip(SubSeq(s, 1, Len(s) - 1)) ELSE s

\* str.strip()
Strip(s) == RStrip(LStrip(s))

(***************************************************************************)
(* app/wear.py: float ranges in hundredths                                 *)
(***************************************************************************)
WearKeys == {"fn", "mw", "ft", "ww", "bs"}

WEAR_RANGES ==
  [k \in WearKeys |->
     CASE k = "fn" -> <<0, 7>>
       [] k = "mw" -> <<7, 15>>
       [] k = "ft" -> <<15, 38>>
       [] k = "ww" -> <<38, 45>>
       [] k = "bs" -> <<45, 100>>]

wear_bucket_range(key) == WEAR_RANGES[key]

(***************************************************************************)
(* app/market_name.py                                                      *)
(***************************************************************************)
WEAR_MAP ==
  [k \in WearKeys |->
     CASE k = "fn" -> "Factory New"
       [] k = "mw" -> "Minimal Wear"
       [] k = "ft" -> "Field-Tested"
       [] k = "ww" -> "Well-Worn"
       [] k = "bs" -> "Battle-Scarred"]

STAR == "*"

STATTRAK == "StatTrak#"

SOUVENIR == "Souvenir"

FamilyRules(n, w, st, sv, star) ==
  [name |-> n, supports_wear |-> w, allows_stattrak |-> st,
   allows_souvenir |-> sv, has_star_prefix |-> star]

FAMILIES ==
  << FamilyRules("knife",        TRUE,  TRUE,  FALSE, TRUE),
     FamilyRules("gloves",       TRUE,  FALSE, FALSE, TRUE),
     FamilyRules("weapon",       TRUE,  TRUE,  TRUE,  FALSE),
     FamilyRules("music_kit",    FALSE, TRUE,  FALSE, FALSE),
     FamilyRules("sticker",      FALSE, FALSE, FALSE, FALSE),
     FamilyRules("patch",        FALSE, FALSE, FALSE, FALSE),
     FamilyRules("agent",        FALSE, FALSE, FALSE, FALSE),
     FamilyRules("graffiti",     FALSE, FALSE, FALSE, FALSE),
     FamilyRules("charm",        FALSE, FALSE, FALSE, FALSE),
     FamilyRules("collectible",  FALSE, FALSE, FALSE, FALSE),
     FamilyRules("case",         FALSE, FALSE, FALSE, FALSE),
     FamilyRules("souvenir_pkg", FALSE, FALSE, FALSE, FALSE),
     FamilyRules("tool",         FALSE, FALSE, FALSE, FALSE),
     FamilyRules("pass",         FALSE, FALSE, FALSE, FALSE),
     FamilyRules("gift",         FALSE, FALSE, FALSE, FALSE) >>

KNIFE_NAMES ==
  {"Karambit", "Bayonet", "M9 Bayonet", "Flip Knife", "Gut Knife",
   "Huntsman Knife", "Falchion Knife", "Shadow Daggers", "Bowie Knife",
   "Ursus Knife", "Navaja Knife", "Stiletto Knife", "Talon Knife",
   "Skeleton Knife", "Paracord Knife", "Survival Knife", "Nomad Knife",
   "Classic Knife", "Kukri Knife"}

GLOVE_NAMES ==
  {"Sport Gloves", "Moto Gloves", "Specialist Gloves", "Driver Gloves",
   "Hand Wraps", "Hydra Gloves", "Bloodhound Gloves"}

AGENT_TOKENS ==
  {"swat", "fbi", "phoenix", "cmdr.", "marshal", "soldier", "the professionals"}

_lhs_item_name(base_name) ==
  IF Contains(base_name, "|")
    THEN Strip(SubSeq(base_name, 1, Find(base_name, "|") - 1))
    ELSE Strip(base_name)

_get(key) ==
  IF \E i \in 1..Len(FAMILIES) : FAMILIES[i].name = key
    THEN FAMILIES[CHOOSE i \in 1..Len(FAMILIES) :
                    /\ FAMILIES[i].name = key
                    /\ \A j \in 1..(i - 1) : FAMILIES[j].name # key]
    ELSE FamilyRules("weapon", TRUE, TRUE, TRUE, FALSE)

_infer_family(base_name) ==
  LET n   == Strip(base_name)
      low == Lower(n)
      lhs == _lhs_item_name(n)
  IN  IF StartsWith(low, "music kit |") \/ StartsWith(low, "stattrak# music kit |")
        THEN _get("music_kit")
      ELSE IF StartsWith(low, "sticker |") THEN _get("sticker")
      ELSE IF StartsWith(low, "patch |") THEN _get("patch")
      ELSE IF StartsWith(low, "sealed graffiti |") \/ StartsWith(low, "graffiti |")
        THEN _get("graffiti")
      ELSE IF StartsWith(low, "charm |") THEN _get("charm")
      ELSE IF StartsWith(low, "souvenir package") \/ Contains(low, "souvenir package")
        THEN _get("souvenir_pkg")
      ELSE IF EndsWith(low, " case") \/ EndsWith(low, " case (old)") THEN _get("case")
      ELSE IF Contains(low, " pin") \/ Contains(low, "collectible")
        THEN _get("collectible")
      ELSE IF Contains(low, " viewer pass") \/ EndsWith(low, " pass") THEN _get("pass")
      ELSE IF Contains(low, " gift") THEN _get("gift")
      ELSE IF StartsWith(n, STAR \o " ") THEN _get("knife")
      ELSE IF lhs \in KNIFE_NAMES \/ EndsWith(lhs, " Knife") THEN _get("knife")
      ELSE IF lhs \in GLOVE_NAMES THEN _get("gloves")
      ELSE IF Contains(n, " | ") /\ \E x \in AGENT_TOKENS : Contains(low, x)
        THEN _get("agent")
      ELSE _get("weapon")

_has_parentheses(name) == Contains(name, "(") /\ Contains(name, ")")

_already_prefixed(name) ==
  LET low == Strip(Lower(name))
  IN  \/ StartsWith(low, "stattrak")
      \/ StartsWith(low, "souvenir")
      \/ StartsWith(low, Lower(STAR))

\* category normalization vs allowances (market_name.py 144-148)
NormCategory(fam, category) ==
  LET cat0 == IF category = NoneS THEN "normal" ELSE Lower(category)
      cat1 == IF cat0 = "stattrak" /\ ~fam.allows_stattrak THEN "normal" ELSE cat0
  IN  IF cat1 = "souvenir" /\ ~fam.allows_souvenir THEN "normal" ELSE cat1

\* the prefix handling with the marker put in front of the starred name, as
\* for the families without a star
StarPrefixMarkerFirst(name, cat) ==
  LET n1 == IF ~StartsWith(name, STAR \o " ") THEN STAR \o " " \o name ELSE name
  IN  IF cat = "stattrak" /\ ~Contains(n1, STATTRAK)
        THEN STATTRAK \o " " \o n1 ELSE n1

\* prefix handling of a star-prefixed family (market_name.py 153-163)
StarPrefix(name, cat) ==
  LET n1 == IF ~StartsWith(name, STAR \o " ") THEN STAR \o " " \o name ELSE name
  IN  IF cat = "stattrak" /\ ~Contains(n1, STATTRAK)
        THEN ReplaceFirst(n1, STAR \o " ", STAR \o " " \o STATTRAK \o " ")
      ELSE IF cat # "stattrak" /\ Contains(n1, STATTRAK)
        THEN ReplaceFirst(n1, STAR \o " " \o STATTRAK \o " ", STAR \o " ")
      ELSE n1

\* prefix handling of the other families (market_name.py 164-176)
PlainPrefix(name, cat, already) ==
  IF ~already
    THEN IF cat = "stattrak" THEN STATTRAK \o " " \o name
         ELSE IF cat = "souvenir" THEN SOUVENIR \o " " \o name
         ELSE name
    ELSE LET n1 == IF cat = "stattrak" /\ ~Contains(name, STATTRAK)
                                        /\ ~Contains(name, SOUVENIR)
                     THEN STATTRAK \o " " \o name ELSE name
         IN  IF cat = "souvenir" /\ ~Contains(n1, SOUVENIR) /\ ~Contains(n1, STATTRAK)
               THEN SOUVENIR \o " " \o n1 ELSE n1

\* wear suffix (market_name.py 178-182)
WearSuffix(fam, name, wear) ==
  IF fam.supports_wear /\ wear # NoneS /\ ~_has_parentheses(name)
       /\ Lower(wear) \in DOMAIN WEAR_MAP
    THEN name \o " (" \o WEAR_MAP[Lower(wear)] \o ")"
    ELSE name

build_market_hash_name(base_name, wear, category) ==
  LET name    == Strip(base_name)
      fam     == _infer_family(name)
      cat     == NormCategory(fam, category)
      already == _already_prefixed(name)
      pre     == IF fam.has_star_prefix THEN StarPrefix(name, cat)
                 ELSE PlainPrefix(name, cat, already)
  IN  WearSuffix(fam, pre, wear)

(***************************************************************************)
(* app/csfloat_client.py: helpers                                          *)
(***************************************************************************)
_NON_FLOAT_KEYWORDS ==
  {"music kit", "sticker", "patch", "agent", "graffiti", "case", "collectible",
   "pin", "key", "viewer pass", "souvenir package", "charm", "gift"}

\* the keyword check on the name as written, not lowercased
ItemSupportsFloatCaseSensitive(name) ==
  ~ \E k \in _NON_FLOAT_KEYWORDS : Contains(name, k)

_item_supports_float(name) ==
  LET low == Lower(name)
  IN  ~ \E k \in _NON_FLOAT_KEYWORDS : Contains(low, k)

_CATEGORY_MAP ==
  [k \in {"normal", "stattrak", "souvenir"} |->
     CASE k = "normal" -> 1 [] k = "stattrak" -> 2 [] k = "souvenir" -> 3]


\* JSON values of a payload whose Python type the source tests
JInt(n) == [int |-> n]

JStr(s) == [str |-> s]

JNull == [null |-> TRUE]

\* a JSON number with a fraction, held in hundredths: JFloat(20050) is 200.5
JFloat(h) == [float |-> h]

\* a JSON value that is not an object (dict)
JScalar == [scalar |-> TRUE]

\* isinstance(v, (int, float, str))
IsNumOrStr(v) == "int" \in DOMAIN v \/ "float" \in DOMAIN v \/ "str" \in DOMAIN v

Digits == "0123456789"

IsDigit(c) == \E i \in 1..Len(Digits) : SubSeq(Digits, i, i) = c

DigitVal(c) == (CHOOSE i \in 1..Len(Digits) : SubSeq(Digits, i, i) = c) - 1

RECURSIVE DigitsVal(_)
\* the number a non-empty string of decimal digits denotes
DigitsVal(s) ==
  IF Len(s) = 0 THEN 0
  ELSE 10 * DigitsVal(SubSeq(s, 1, Len(s) - 1)) + DigitVal(SubSeq(s, Len(s), Len(s)))

\* int(s) for a str: surrounding blanks are dropped, one sign is allowed,
\* the rest must be decimal digits; NoneV stands for ValueError
ParseInt(s) ==
  LET t    == Strip(s)
      neg  == Len(t) > 0 /\ SubSeq(t, 1, 1) = "-"
      sgn  == Len(t) > 0 /\ SubSeq(t, 1, 1) \in {"-", "+"}
      body == IF sgn THEN SubSeq(t, 2, Len(t)) ELSE t
  IN  IF Len(body) > 0 /\ \A i \in 1..Len(body) : IsDigit(SubSeq(body, i, i))
        THEN Some(IF neg THEN 0 - DigitsVal(body) ELSE DigitsVal(body))
        ELSE NoneV

\* int(x) with the default on failure
_as_int(v, default) ==
  IF "int" \in DOMAIN v THEN v.int
  ELSE IF "float" \in DOMAIN v
    THEN IF v.float >= 0 THEN v.float \div 100 ELSE 0 - ((0 - v.float) \div 100)
  ELSE IF "str" \in DOMAIN v /\ ParseInt(v.str) # NoneV THEN The(ParseInt(v.str))
  ELSE default

\* a credential check that lets the empty key through
RequireConfigAnyKey(key) == TRUE

\* config.py 13-19, called by _headers(): TRUE when the call goes on, FALSE
\* when RuntimeError is raised
require_config(key) == key # ""

_price_cents_from_row(row) ==
  IF IsNumOrStr(row.price) THEN _as_int(row.price, 0) ELSE 0

_extract_rows(payload) ==
  IF payload.shape = "list" THEN payload.rows
  ELSE IF payload.shape = "dict"
         /\ payload.key \in {"listings", "results", "data", "items", "rows"}
    THEN payload.rows
  ELSE << >>

\* Listing(id, price_usd): the price is held in cents
map_listing(row) ==
  [id |-> row.id, price |-> _price_cents_from_row(row)]

\* the query of one GET /listings issued by _first_listing through
\* iter_listings; an absent parameter is NoneV
ListingParams(name, sort_by, category, wear_bucket) ==
  [endpoint         |-> "listings",
   market_hash_name |-> IF name # "" THEN name ELSE NoneS,
   sort_by          |-> sort_by,
   limit            |-> 50,
   category         |-> category,
   min_float        |-> IF wear_bucket # NoneV THEN Some(The(wear_bucket)[1]) ELSE NoneV,
   max_float        |-> IF wear_bucket # NoneV THEN Some(The(wear_bucket)[2]) ELSE NoneV]

BuyOrdersParams(listing_id, limit) ==
  [endpoint |-> "buy-orders", listing_id |-> listing_id, limit |-> limit]

Min(a, b) == IF a < b THEN a ELSE b

Max(a, b) == IF a > b THEN a ELSE b

HistoryParams(name, limit) ==
  [endpoint |-> "history", name |-> name, limit |-> Max(1, Min(limit, 400))]

\* httpx raise_for_status(): TRUE when it raises
RaisesForStatus(status) == ~(200 <= status /\ status < 300)

\* what one page gives _first_listing once the status checks are behind:
\* "raise", or the Listing of the first row, or NoneV
FirstOfPage(resp) ==
  IF RaisesForStatus(resp.status) THEN "raise"
  ELSE IF resp.body = "badjson" THEN "none"
  ELSE IF _extract_rows(resp.payload) = << >> THEN "none"
  ELSE IF "scalar" \in DOMAIN _extract_rows(resp.payload)[1] THEN "raise"
  ELSE "listing"

ListingOfPage(resp) == map_listing(_extract_rows(resp.payload)[1])

(***************************************************************************)
(* Buy orders                                                              *)
(***************************************************************************)
RECURSIVE SumSeq(_)
SumSeq(s) == IF s = << >> THEN 0 ELSE Head(s) + SumSeq(Tail(s))

RECURSIVE MaxSeq(_)
MaxSeq(s) == IF Len(s) = 1 THEN s[1] ELSE Max(Head(s), MaxSeq(Tail(s)))

IsCleanOrder(o) == IsNumOrStr(o.price)

OrderCents(o) == _as_int(o.price, 0)

\* (top_cents, qty_top) or NoneV; the source divides top_cents by 100.0
highest_bid_from_orders(orders) ==
  IF orders = << >> THEN NoneV
  ELSE LET clean == SelectSeq(orders, IsCleanOrder)
       IN  IF clean = << >> THEN NoneV
           ELSE LET cents     == [i \in 1..Len(clean) |-> OrderCents(clean[i])]
                    top_cents == MaxSeq(cents)
                    qty_top   == SumSeq([i \in 1..Len(clean) |->
                                   IF OrderCents(clean[i]) = top_cents
                                     THEN _as_int(clean[i].qty, 0) ELSE 0])
                IN  Some([bid |-> top_cents, qty |-> qty_top])

\* fetch_buy_orders_for_listing then highest_bid_from_orders on one response:
\* "raised" (swallowed by the caller) or "bid"
BuyOutcome(resp) ==
  IF RaisesForStatus(resp.status) \/ resp.body = "badjson" THEN "raised"
  ELSE IF resp.body # "list" THEN "bid"
  ELSE IF \E i \in 1..Len(resp.orders) : "scalar" \in DOMAIN resp.orders[i] THEN "raised"
  ELSE "bid"

BidOf(resp) ==
  IF BuyOutcome(resp) = "bid" /\ resp.body = "list"
    THEN highest_bid_from_orders(resp.orders) ELSE NoneV

(***************************************************************************)
(* app/history.py                                                          *)
(* A timestamp string of an event is one of TsAbsent (no such key, or      *)
(* null), TsBad (text that datetime.fromisoformat rejects) or              *)
(* Ts(aware, age): a parseable ISO time, with or without a UTC offset,     *)
(* that lies age seconds before "now".                                     *)
(***************************************************************************)
TsAbsent == [absent |-> TRUE]

TsBad == [bad |-> TRUE]

Ts(aware, age) == [aware |-> aware, age |-> age]

\* the datetime or NoneV
_parse_iso(ts) == IF "age" \in DOMAIN ts THEN Some(ts) ELSE NoneV

RECURSIVE GCD(_, _)
GCD(a, b) == IF b = 0 THEN a ELSE GCD(b, a % b)

\* the USD amount num/den as a fraction in lowest terms; 0.0 is <<0, 1>>
Ratio(num, den) == IF num = 0 THEN <<0, 1>> ELSE <<num \div GCD(num, den), den \div GCD(num, den)>>

\* history.py 105-107: the wear filter the aggregation applies
HistEffWear(name, wear_bucket) ==
  IF ~_item_supports_float(name) THEN NoneV ELSE wear_bucket

_cat_ok(item, category) ==
  IF category = NoneV THEN TRUE
  ELSE LET c == IF item.is_souvenir THEN 3 ELSE IF item.is_stattrak THEN 2 ELSE 1
       IN  c = The(category)

_wear_ok(item, wear_bucket) ==
  IF wear_bucket = NoneV THEN TRUE
  ELSE IF item.float_value = NoneV THEN FALSE
  ELSE The(wear_bucket)[1] <= The(item.float_value)
         /\ The(item.float_value) < The(wear_bucket)[2]

\* the datetime the loop uses: sold_at, else created_at
EventTs(e) ==
  IF _parse_iso(e.sold_at) # NoneV THEN _parse_iso(e.sold_at)
  ELSE _parse_iso(e.created_at)

\* the loop with the test of the state left out
RetainedAnyState(e, wear_bucket, category, lb_seconds) ==
  LET ts == EventTs(e)
  IN  /\ ts # NoneV
      /\ The(ts).aware
      /\ ~(The(ts).age > lb_seconds)
      /\ _cat_ok(e.item, category)
      /\ _wear_ok(e.item, wear_bucket)
      /\ e.price # JNull
      /\ ~(_as_int(e.price, 0) <= 0)

\* the loop with the tests of the price left out
RetainedAnyPrice(e, wear_bucket, category, lb_seconds) ==
  LET state == IF e.state = NoneS THEN "" ELSE Lower(e.state)
      ts    == EventTs(e)
  IN  /\ ~(state # "" /\ state # "sold")
      /\ ts # NoneV
      /\ The(ts).aware
      /\ ~(The(ts).age > lb_seconds)
      /\ _cat_ok(e.item, category)
      /\ _wear_ok(e.item, wear_bucket)

\* history.py 142-163: TRUE when the loop reaches "vol += 1" for the event
Retained(e, wear_bucket, category, lb_seconds) ==
  LET state == IF e.state = NoneS THEN "" ELSE Lower(e.state)
      ts    == EventTs(e)
  IN  /\ ~(state # "" /\ state # "sold")
      /\ ts # NoneV
      /\ The(ts).aware
      /\ ~(The(ts).age > lb_seconds)
      /\ _cat_ok(e.item, category)
      /\ _wear_ok(e.item, wear_bucket)
      /\ e.price # JNull
      /\ ~(_as_int(e.price, 0) <= 0)

\* the loop of compute_sales_24h_metrics over the events fetched:
\* [vol, asp] with asp in USD as a fraction
SalesMetrics(events, wear_bucket, category, lookback_hours) ==
  LET kept == SelectSeq(events,
                LAMBDA e : Retained(e, wear_bucket, category, lookback_hours * 3600))
      vol  == Len(kept)
      tot  == SumSeq([i \in 1..vol |-> _as_int(kept[i].price, 0)])
  IN  [vol |-> vol, asp |-> IF vol > 0 THEN Ratio(tot, 100 * vol) ELSE <<0, 1>>]

\* the events fetch_sales_history returns for a 2xx response with a JSON body
HistoryEvents(resp) ==
  IF resp.body = "list" THEN resp.events
  ELSE IF resp.body = "dict" /\ resp.key \in {"results", "data", "items", "events"}
    THEN resp.events
  ELSE << >>

\* compute_sales_24h_metrics on a response that did not raise
compute_sales_24h_metrics(name, wear_bucket, category, lookback_hours, resp) ==
  IF HistoryEvents(resp) = << >> THEN [vol |-> 0, asp |-> <<0, 1>>]
  ELSE SalesMetrics(HistoryEvents(resp), HistEffWear(name, wear_bucket),
                    category, lookback_hours)

\* fetch_sales_history on the response it ends with: TRUE when it raises
HistoryRaises(resp) == RaisesForStatus(resp.status) \/ resp.body = "badjson"

(***************************************************************************)
(* The fallback cascade of fetch_snapshot_metrics                          *)
(***************************************************************************)
Stages == <<"strict", "no_wear", "no_cat", "name_only">>

StageIdx(s) == CHOOSE i \in 1..Len(Stages) : Stages[i] = s

\* the stages labelled by their short names
StageLabelShort(s) == s

\* the label handed to try_first
StageLabel(s) ==
  CASE s = "strict"    -> "strict(name+cat+wear)"
    [] s = "no_wear"   -> "no_wear(name+cat)"
    [] s = "no_cat"    -> "no_cat(name+wear)"
    [] s = "name_only" -> "name_only"

\* the (cat, wb) handed to try_first
StageArgs(s, f) ==
  CASE s = "strict"    -> [cat |-> f.category, wb |-> f.wear_bucket]
    [] s = "no_wear"   -> [cat |-> f.category, wb |-> NoneV]
    [] s = "no_cat"    -> [cat |-> NoneV,
                           wb  |-> IF f.supports_float THEN f.requested_wear ELSE NoneV]
    [] s = "name_only" -> [cat |-> NoneV, wb |-> NoneV]

\* the cascade with a stage that is tried whether or not an offer was found
StageGuardNoStop(s, f) ==
  CASE s = "strict"    -> TRUE
    [] s = "no_wear"   -> f.lowest = NoneV /\ f.wear_bucket # NoneV
    [] s = "no_cat"    -> f.category # NoneV
    [] s = "name_only" -> f.lowest = NoneV

\* the condition under which the stage is tried
StageGuard(s, f) ==
  CASE s = "strict"    -> TRUE
    [] s = "no_wear"   -> f.lowest = NoneV /\ f.wear_bucket # NoneV
    [] s = "no_cat"    -> f.lowest = NoneV /\ f.category # NoneV
    [] s = "name_only" -> f.lowest = NoneV

\* the first stage after s whose condition holds, "end" when there is none
NextStage(s, f) ==
  LET later == {i \in (StageIdx(s) + 1)..Len(Stages) : StageGuard(Stages[i], f)}
  IN  IF later = {} THEN "end"
      ELSE Stages[CHOOSE i \in later : \A j \in later : i <= j]

\* csfloat_client.py 331-343: the locals of fetch_snapshot_metrics before the
\* first query.  The last six fields record what the call did: the stages
\* tried with their results, what the cascade had produced when it ended,
\* how the buy-order fetch and the history aggregation ended ("n/a" when
\* not called, "ok", "raised"), and the filters handed to
\* compute_sales_24h_metrics ("called" while it runs).
EnterMetrics(name, category, wear_bucket) ==
  LET supports_float == _item_supports_float(name)
  IN  [name            |-> name,
       category        |-> category,
       requested_wear  |-> wear_bucket,
       supports_float  |-> supports_float,
       wear_bucket     |-> IF ~supports_float THEN NoneV ELSE wear_bucket,
       lowest          |-> NoneV,
       source          |-> "n/a",
       used_cat        |-> NoneV,
       used_wear       |-> NoneV,
       highest_bid     |-> NoneV,
       highest_bid_qty |-> NoneV,
       vol24h          |-> 0,
       asp24h          |-> <<0, 1>>,
       stages          |-> << >>,
       cascade_out     |-> NoneV,
       buy_res         |-> "n/a",
       hist_res        |-> "n/a",
       hist_wear       |-> NoneV,
       hist_cat        |-> NoneV]

\* "if l: lowest, source, used_cat, used_wear = l, s, c_used, w_used"
TakeListing(f, s, l) ==
  [f EXCEPT !.lowest = Some(l), !.source = StageLabel(s),
            !.used_cat = StageArgs(s, f).cat, !.used_wear = StageArgs(s, f).wb]

\* "if lowest and lowest.id"
WantsBuyOrders(f) == f.lowest # NoneV /\ The(f.lowest).id \notin {NoneS, ""}

\* lines 372-378: the frame once the buy orders gave the bid hb, or the
\* fetch raised (res = "raised")
TakeBid(f, res, hb) ==
  IF res # "raised" /\ hb # NoneV
    THEN [f EXCEPT !.highest_bid = Some(The(hb).bid),
                   !.highest_bid_qty = Some(The(hb).qty), !.buy_res = "ok"]
    ELSE [f EXCEPT !.buy_res = IF res = "raised" THEN "raised" ELSE "ok"]

\* the filters of the stage that succeeded handed to the aggregation
HistoryArgsRelaxed(f) == [wear |-> f.used_wear, cat |-> f.used_cat]

\* the filters handed to compute_sales_24h_metrics (lines 381-382)
HistoryArgs(f) ==
  [wear |-> IF f.supports_float THEN f.requested_wear ELSE NoneV,
   cat  |-> f.category]

\* the snapshot with lowest_ask_id None when no offer was found
SnapOfNoneId(f) ==
  [source            |-> f.source,
   lowest_ask        |-> IF f.lowest # NoneV THEN The(f.lowest).price ELSE 0,
   lowest_ask_id     |-> IF f.lowest # NoneV THEN The(f.lowest).id ELSE NoneS,
   highest_bid       |-> f.highest_bid,
   highest_bid_qty   |-> f.highest_bid_qty,
   vol24h            |-> f.vol24h,
   asp24h            |-> f.asp24h,
   used_category     |-> f.used_cat,
   used_wear         |-> f.used_wear,
   is_floatable      |-> f.supports_float,
   used_name_variant |-> NoneS]

\* the snapshot dict of lines 391-402; amounts in cents
SnapOf(f) ==
  [source            |-> f.source,
   lowest_ask        |-> IF f.lowest # NoneV THEN The(f.lowest).price ELSE 0,
   lowest_ask_id     |-> IF f.lowest # NoneV THEN The(f.lowest).id ELSE "",
   highest_bid       |-> f.highest_bid,
   highest_bid_qty   |-> f.highest_bid_qty,
   vol24h            |-> f.vol24h,
   asp24h            |-> f.asp24h,
   used_category     |-> f.used_cat,
   used_wear         |-> f.used_wear,
   is_floatable      |-> f.supports_float,
   used_name_variant |-> NoneS]

(***************************************************************************)
(* fetch_snapshot_by_params                                                *)
(***************************************************************************)
\* lines 281 and 310: the snapshot found something
Found(snap) == snap.lowest_ask > 0 \/ snap.vol24h > 0

\* an alternate category for souvenir too
AltCategoryKeyAny(category_key) ==
  IF category_key = "stattrak" THEN "normal"
  ELSE IF category_key = "normal" THEN "stattrak"
  ELSE IF category_key = "souvenir" THEN "normal"
  ELSE NoneS

\* lines 286-290
AltCategoryKey(category_key) ==
  IF category_key = "stattrak" THEN "normal"
  ELSE IF category_key = "normal" THEN "stattrak"
  ELSE NoneS

\* line 270
CatPrimary(category_key) ==
  IF category_key # NoneS /\ category_key # "" /\ category_key \in DOMAIN _CATEGORY_MAP
    THEN Some(_CATEGORY_MAP[category_key]) ELSE NoneV

\* line 271
WearBucketPrimary(wear_key, name_primary) ==
  IF wear_key # NoneS /\ wear_key # "" /\ _item_supports_float(name_primary)
    THEN Some(wear_bucket_range(wear_key)) ELSE NoneV

\* line 297
WearBucketAlt(wear_bucket, name_alt) ==
  IF _item_supports_float(name_alt) THEN wear_bucket ELSE NoneV

\* the frame of the primary call of fetch_snapshot_metrics (lines 269-278)
PrimaryFrame(base_name, wear_key, category_key) ==
  LET name_primary == build_market_hash_name(base_name, wear_key, category_key)
  IN  EnterMetrics(name_primary, CatPrimary(category_key),
                   WearBucketPrimary(wear_key, name_primary))

\* the frame of the alternate call (lines 294-307)
AltFrame(base_name, wear_key, alt_category_key, wear_bucket) ==
  LET name_alt == build_market_hash_name(base_name, wear_key, alt_category_key)
  IN  EnterMetrics(name_alt, NoneV, WearBucketAlt(wear_bucket, name_alt))

(***************************************************************************)
(* Bounds and inputs                                                       *)
(***************************************************************************)
\* how many times in a row the upstream answers one query with HTTP 429
MaxRateLimited == 3

BaseNames ==
  {"AK-47 | Redline", "AK-47 | Case Hardened", "Karambit | Doppler",
   "Music Kit | Zen", "Sticker | Crown"}

CallWears == {NoneS, "ft"}

CallCategories == {NoneS, "normal", "stattrak", "souvenir"}

ApiKeys == {"", "secret"}

Row(id, price) == [id |-> id, price |-> price]

\* the pages of listings the upstream answers with
RowLists ==
  { << >>,
    << Row("L1", JInt(1500)) >>,
    << Row(NoneS, JInt(1500)), Row("L1", JInt(1700)) >>,
    << Row("", JNull) >>,
    << JScalar >> }

ErrorStatuses == {404, 429, 500}

NoPayload == [shape |-> "other", key |-> "", rows |-> << >>]

ListingResponses ==
  [status : ErrorStatuses, body : {"text"}, payload : {NoPayload}]
  \cup [status : {200}, body : {"badjson"}, payload : {NoPayload}]
  \cup [status : {200}, body : {"json"},
        payload : [shape : {"list"}, key : {""}, rows : RowLists]
                  \cup [shape : {"dict"}, key : {"data", "error"}, rows : RowLists]
                  \cup {NoPayload}]

Order(price, qty) == [price |-> price, qty |-> qty]

\* the buy-order lists the upstream answers with
OrderLists ==
  { << >>,
    << Order(JInt(100), JInt(1)) >>,
    << Order(JInt(200), JInt(2)), Order(JInt(100), JInt(5)), Order(JInt(200), JInt(1)) >>,
    << Order(JNull, JInt(1)) >>,
    << JScalar >> }

BuyResponses ==
  [status : ErrorStatuses, body : {"text"}, orders : {<< >>}]
  \cup [status : {200}, body : {"badjson", "dict"}, orders : {<< >>}]
  \cup [status : {200}, body : {"list"}, orders : OrderLists]

Item(st, sv, fv) == [is_stattrak |-> st, is_souvenir |-> sv, float_value |-> fv]

Event(state, sold_at, created_at, item, price) ==
  [state |-> state, sold_at |-> sold_at, created_at |-> created_at,
   item |-> item, price |-> price]

\* the sale histories the upstream answers with
EventLists ==
  { << >>,
    << Event("sold", Ts(TRUE, 3600), TsAbsent, Item(FALSE, FALSE, Some(20)), JInt(2500)) >>,
    << Event(NoneS, TsAbsent, Ts(TRUE, 86400), Item(TRUE, FALSE, Some(50)), JInt(1000)),
       Event("Sold", Ts(TRUE, 60), TsAbsent, Item(FALSE, FALSE, NoneV), JInt(300)) >>,
    << Event("listed", Ts(TRUE, 3600), TsAbsent, Item(FALSE, FALSE, Some(20)), JInt(2500)),
       Event("sold", Ts(TRUE, 86401), TsAbsent, Item(FALSE, FALSE, Some(20)), JInt(2500)),
       Event("sold", TsBad, Ts(FALSE, 60), Item(FALSE, FALSE, Some(20)), JInt(2500)) >> }

HistoryResponses ==
  [status : ErrorStatuses, body : {"text"}, key : {""}, events : {<< >>}]
  \cup [status : {200}, body : {"badjson", "scalar"}, key : {""}, events : {<< >>}]
  \cup [status : {200}, body : {"list"}, key : {""}, events : EventLists]
  \cup [status : {200}, body : {"dict"}, key : {"events", "error"}, events : EventLists]

(***************************************************************************)
(* State                                                                   *)
(***************************************************************************)
VARIABLES
  apiKey,    \* CFG["CSFLOAT_API_KEY"]
  entry,     \* the function that was called
  pc,        \* where the call of fetch_snapshot_by_params stands
  args,      \* its arguments
  att,       \* "primary" or "alt": which call of fetch_snapshot_metrics runs
  fr,        \* the locals of the two calls of fetch_snapshot_metrics
  stage,     \* the cascade stage being queried
  reqs,      \* GET /listings issued for the current stage
  hattempt,  \* "attempt" of fetch_sales_history
  log,       \* every HTTP request issued
  outcome    \* how fetch_snapshot_by_params ended

vars == <<apiKey, entry, pc, args, att, fr, stage, reqs, hattempt, log, outcome>>

NoArgs == [base_name |-> "", wear_key |-> NoneS, category_key |-> NoneS]

Init ==
  /\ apiKey \in ApiKeys
  /\ entry = ""
  /\ pc = "idle"
  /\ args = NoArgs
  /\ att = "primary"
  /\ fr = [primary |-> NoneV, alt |-> NoneV]
  /\ stage = "strict"
  /\ reqs = 0
  /\ hattempt = 1
  /\ log = {}
  /\ outcome = [kind |-> "none"]

Cur == The(fr[att])

Returned(snap) == [kind |-> "returned", snap |-> snap]

\* a direct call of a fetch function returned a list
ReturnedList(xs) == [kind |-> "returned_list", list |-> xs]

Raised(err) == [kind |-> "raised", err |-> err]

\* fetch_snapshot_by_params is called: lines 269-278 up to the first query
Call(base_name, wear_key, category_key) ==
  /\ pc = "idle"
  /\ entry' = "fetch_snapshot_by_params"
  /\ args' = [base_name |-> base_name, wear_key |-> wear_key,
              category_key |-> category_key]
  /\ att' = "primary"
  /\ fr' = [fr EXCEPT !.primary = Some(PrimaryFrame(base_name, wear_key, category_key))]
  /\ stage' = "strict"
  /\ reqs' = 0
  /\ pc' = "listing"
  /\ UNCHANGED <<apiKey, hattempt, log, outcome>>

\* the frame once try_first(s) has ended: with a Listing l
\* (res = "listing"), with None (res = "none") or by raising (res = "raised")
AfterStage(f, s, res, l) ==
  LET f1 == IF res = "listing" THEN TakeListing(f, s, l) ELSE f
      f2 == [f1 EXCEPT !.stages = Append(@, [stage |-> s, res |-> res])]
  IN  IF res # "raised" /\ NextStage(s, f2) = "end"
        THEN [f2 EXCEPT !.cascade_out =
                Some([lowest |-> f2.lowest, source |-> f2.source,
                      used_cat |-> f2.used_cat, used_wear |-> f2.used_wear])]
        ELSE f2

\* where the call goes once the stage s is behind
PcAfterStage(f, s) ==
  IF NextStage(s, f) # "end" THEN "listing"
  ELSE IF WantsBuyOrders(f) THEN "buy"
  ELSE "history"

\* lines 145-165 of iter_listings as consumed by _first_listing, then the
\* cascade of fetch_snapshot_metrics up to the next request
AfterPage(resp) ==
  IF FirstOfPage(resp) = "raise"
    THEN /\ fr' = [fr EXCEPT ![att] = Some(AfterStage(Cur, stage, "raised", NoneV))]
         /\ outcome' = Raised("http")
         /\ pc' = "done"
         /\ reqs' = 0
         /\ UNCHANGED <<stage, hattempt>>
    ELSE LET l == IF FirstOfPage(resp) = "listing" THEN ListingOfPage(resp) ELSE NoneV
             f == AfterStage(Cur, stage, FirstOfPage(resp), l)
         IN  /\ fr' = [fr EXCEPT ![att] = Some(f)]
             /\ pc' = PcAfterStage(f, stage)
             /\ stage' = IF NextStage(stage, f) # "end" THEN NextStage(stage, f) ELSE stage
             /\ reqs' = 0
             /\ hattempt' = 1
             /\ UNCHANGED outcome

\* the query of the current stage
StageQuery ==
  ListingParams(Cur.name, "lowest_price", StageArgs(stage, Cur).cat, StageArgs(stage, Cur).wb)

\* one GET /listings of the loop of iter_listings (lines 120-143)
ListingGet ==
  /\ pc = "listing"
  /\ IF ~require_config(apiKey)
       THEN /\ outcome' = Raised("config")
            /\ pc' = "done"
            /\ UNCHANGED <<apiKey, entry, args, att, fr, stage, reqs, hattempt, log>>
       ELSE \E resp \in ListingResponses :
              /\ resp.status = 429 => reqs < MaxRateLimited
              /\ log' = log \cup {StageQuery}
              /\ IF resp.status = 429
                   THEN /\ reqs' = reqs + 1
                        /\ UNCHANGED <<pc, fr, stage, hattempt, outcome>>
                 ELSE IF 500 <= resp.status /\ resp.status < 600
                   THEN /\ reqs' = reqs + 1
                        /\ pc' = "listing_retry"
                        /\ UNCHANGED <<fr, stage, hattempt, outcome>>
                 ELSE AfterPage(resp)
              /\ UNCHANGED <<apiKey, entry, args, att>>

\* the second GET /listings after a 5xx (line 143), whose response is taken
\* as it comes
ListingRetry ==
  /\ pc = "listing_retry"
  /\ IF ~require_config(apiKey)
       THEN /\ outcome' = Raised("config")
            /\ pc' = "done"
            /\ UNCHANGED <<apiKey, entry, args, att, fr, stage, reqs, hattempt, log>>
       ELSE \E resp \in ListingResponses :
              /\ log' = log \cup {StageQuery}
              /\ AfterPage(resp)
              /\ UNCHANGED <<apiKey, entry, args, att>>

\* lines 371-378: fetch_buy_orders_for_listing and highest_bid_from_orders,
\* any exception swallowed
BuyOrders ==
  /\ pc = "buy"
  /\ IF ~require_config(apiKey)
       THEN /\ fr' = [fr EXCEPT ![att] = Some(TakeBid(Cur, "raised", NoneV))]
            /\ UNCHANGED log
       ELSE \E resp \in BuyResponses :
              /\ log' = log \cup {BuyOrdersParams(The(Cur.lowest).id, 10)}
              /\ fr' = [fr EXCEPT ![att] =
                          Some(TakeBid(Cur, BuyOutcome(resp), BidOf(resp)))]
  /\ pc' = "history"
  /\ hattempt' = 1
  /\ UNCHANGED <<apiKey, entry, args, att, stage, reqs, outcome>>

\* a failed aggregation that blanks the whole snapshot
TakeMetricsBlank(f, m) ==
  IF m = NoneV
    THEN [f EXCEPT !.vol24h = 0, !.asp24h = <<0, 1>>, !.hist_res = "raised",
                   !.lowest = NoneV, !.source = "n/a"]
    ELSE [f EXCEPT !.vol24h = The(m).vol, !.asp24h = The(m).asp, !.hist_res = "ok"]

\* the frame once compute_sales_24h_metrics has returned m, or has raised
\* (m = NoneV; lines 384-389)
TakeMetrics(f, m) ==
  IF m = NoneV THEN [f EXCEPT !.vol24h = 0, !.asp24h = <<0, 1>>, !.hist_res = "raised"]
  ELSE [f EXCEPT !.vol24h = The(m).vol, !.asp24h = The(m).asp, !.hist_res = "ok"]

\* the call of compute_sales_24h_metrics is entered with these filters
WithHistoryArgs(f) ==
  [f EXCEPT !.hist_res = "called", !.hist_wear = HistoryArgs(f).wear,
            !.hist_cat = HistoryArgs(f).cat]

\* lines 380-389: one GET of the loop of fetch_sales_history (history.py
\* 68-77), then the aggregation over its events
HistoryGet ==
  /\ pc = "history"
  /\ IF ~require_config(apiKey)
       THEN /\ fr' = [fr EXCEPT ![att] = Some(TakeMetrics(WithHistoryArgs(Cur), NoneV))]
            /\ pc' = "metrics_done"
            /\ UNCHANGED <<hattempt, log>>
       ELSE \E resp \in HistoryResponses :
              /\ log' = log \cup {HistoryParams(Cur.name, 400)}
              /\ IF (resp.status = 429 \/ (500 <= resp.status /\ resp.status < 600))
                      /\ hattempt = 1
                   THEN /\ hattempt' = 2
                        /\ fr' = [fr EXCEPT ![att] = Some(WithHistoryArgs(Cur))]
                        /\ UNCHANGED pc
                   ELSE /\ fr' = [fr EXCEPT ![att] =
                                   Some(TakeMetrics(WithHistoryArgs(Cur),
                                     IF HistoryRaises(resp) THEN NoneV
                                     ELSE Some(compute_sales_24h_metrics(Cur.name,
                                            HistoryArgs(Cur).wear, HistoryArgs(Cur).cat,
                                            24, resp))))]
                        /\ pc' = "metrics_done"
                        /\ hattempt' = 1
  /\ UNCHANGED <<apiKey, entry, args, att, stage, reqs, outcome>>

\* line 312: snap_alt["used_name_variant"] = name_alt
Annotate(snap, name_alt) == [snap EXCEPT !.used_name_variant = name_alt]

\* fetch_snapshot_metrics returns (lines 391-402) and fetch_snapshot_by_params
\* goes on (lines 280-316)
Resolve ==
  /\ pc = "metrics_done"
  /\ IF att = "primary"
       THEN IF ~Found(SnapOf(Cur)) /\ AltCategoryKey(args.category_key) # NoneS
              THEN /\ att' = "alt"
                   /\ fr' = [fr EXCEPT !.alt =
                               Some(AltFrame(args.base_name, args.wear_key,
                                             AltCategoryKey(args.category_key),
                                             Cur.requested_wear))]
                   /\ stage' = "strict"
                   /\ reqs' = 0
                   /\ pc' = "listing"
                   /\ UNCHANGED outcome
              ELSE /\ outcome' = Returned(SnapOf(Cur))
                   /\ pc' = "done"
                   /\ UNCHANGED <<att, fr, stage, reqs>>
       ELSE /\ outcome' = IF Found(SnapOf(Cur))
                            THEN Returned(Annotate(SnapOf(Cur), Cur.name))
                            ELSE Returned(SnapOf(The(fr.primary)))
            /\ pc' = "done"
            /\ UNCHANGED <<att, fr, stage, reqs>>
  /\ UNCHANGED <<apiKey, entry, args, hattempt, log>>

\* fetch_buy_orders_for_listing called on its own (lines 225-234)
DirectBuyOrders(listing_id) ==
  /\ pc = "idle"
  /\ entry' = "fetch_buy_orders_for_listing"
  /\ IF ~require_config(apiKey)
       THEN /\ outcome' = Raised("config")
            /\ UNCHANGED log
       ELSE \E resp \in BuyResponses :
              /\ log' = log \cup {BuyOrdersParams(listing_id, 10)}
              /\ outcome' = IF RaisesForStatus(resp.status) \/ resp.body = "badjson"
                               THEN Raised("http")
                             ELSE IF resp.body = "list" THEN ReturnedList(resp.orders)
                             ELSE ReturnedList(<< >>)
  /\ pc' = "done"
  /\ UNCHANGED <<apiKey, args, att, fr, stage, reqs, hattempt>>

\* fetch_sales_history is called on its own
CallSalesHistory(name) ==
  /\ pc = "idle"
  /\ entry' = "fetch_sales_history"
  /\ args' = [NoArgs EXCEPT !.base_name = name]
  /\ hattempt' = 1
  /\ pc' = "sales"
  /\ UNCHANGED <<apiKey, att, fr, stage, reqs, log, outcome>>

\* one GET of the loop of fetch_sales_history (history.py 68-89)
SalesGet ==
  /\ pc = "sales"
  /\ IF ~require_config(apiKey)
       THEN /\ outcome' = Raised("config")
            /\ pc' = "done"
            /\ UNCHANGED <<hattempt, log>>
       ELSE \E resp \in HistoryResponses :
              /\ log' = log \cup {HistoryParams(args.base_name, 200)}
              /\ IF (resp.status = 429 \/ (500 <= resp.status /\ resp.status < 600))
                      /\ hattempt = 1
                   THEN /\ hattempt' = 2
                        /\ UNCHANGED <<pc, outcome>>
                   ELSE /\ outcome' = IF HistoryRaises(resp) THEN Raised("http")
                                       ELSE ReturnedList(HistoryEvents(resp))
                        /\ pc' = "done"
                        /\ hattempt' = 1
  /\ UNCHANGED <<apiKey, entry, args, att, fr, stage, reqs>>

Next ==
  \/ \E b \in BaseNames, w \in CallWears, c \in CallCategories : Call(b, w, c)
  \/ \E id \in {"L1"} : DirectBuyOrders(id)
  \/ \E b \in BaseNames : CallSalesHistory(b)
  \/ SalesGet
  \/ ListingGet
  \/ ListingRetry
  \/ BuyOrders
  \/ HistoryGet
  \/ Resolve

Spec == Init /\ [][Next]_vars

(***************************************************************************)
(* Properties                                                              *)
(***************************************************************************)
Attempts == {"primary", "alt"}

\* the calls of fetch_snapshot_metrics made so far
Started == {a \in Attempts : fr[a] # NoneV}

Frame(a) == The(fr[a])

IsResolverCall == entry = "fetch_snapshot_by_params"

\* the cascade of the call ended without raising
CascadeOver(a) == Frame(a).cascade_out # NoneV

\* the call of fetch_snapshot_metrics returned its snapshot
MetricsOver(a) == Frame(a).hist_res \in {"ok", "raised"}

StageNames == {Stages[i] : i \in 1..Len(Stages)}

QueriedAt(f, s) == \E i \in 1..Len(f.stages) : f.stages[i].stage = s

OfferBefore(f, s) ==
  \E i \in 1..Len(f.stages) :
    StageIdx(f.stages[i].stage) < StageIdx(s) /\ f.stages[i].res = "listing"

\* the filter the stage relaxes is in effect in the call
RelaxedFilterInEffect(f, s) ==
  CASE s = "no_wear" -> f.wear_bucket # NoneV
    [] s = "no_cat"  -> f.category # NoneV
    [] OTHER         -> TRUE

\* the filters the stage is to query with: strict (name+cat+wear), no_wear
\* (name+cat), no_cat (name+wear), name_only
StageFilters(f, s) ==
  CASE s = "strict"    -> [cat |-> f.category, wear |-> f.wear_bucket]
    [] s = "no_wear"   -> [cat |-> f.category, wear |-> NoneV]
    [] s = "no_cat"    -> [cat |-> NoneV,      wear |-> f.wear_bucket]
    [] s = "name_only" -> [cat |-> NoneV,      wear |-> NoneV]

\* a GET /listings for the cheapest offer of the name under the filters of
\* the stage was issued
QueryIssued(f, s) ==
  \E q \in log :
    /\ q.endpoint = "listings"
    /\ q.market_hash_name = f.name
    /\ q.sort_by = "lowest_price"
    /\ q.category = StageFilters(f, s).cat
    /\ IF StageFilters(f, s).wear = NoneV
         THEN q.min_float = NoneV /\ q.max_float = NoneV
         ELSE /\ q.min_float = Some(The(StageFilters(f, s).wear)[1])
              /\ q.max_float = Some(The(StageFilters(f, s).wear)[2])

\* C1 as stated: once the cascade has ended, a stage was queried exactly when
\* no earlier stage had returned an offer (no stage is ever skipped).
C1_NoStageSkipped ==
  \A a \in Started :
    CascadeOver(a) =>
      \A s \in StageNames : QueriedAt(Frame(a), s) <=> ~OfferBefore(Frame(a), s)

\* C1 amended: the stages are queried in the fixed order strict, no_wear,
\* no_cat, name_only, each with its filters; nothing is queried after a stage
\* that returned an offer
\* or raised; and a stage is queried exactly when no earlier stage returned an
\* offer and the filter it relaxes is in effect (no_wear: a wear range is in
\* effect; no_cat: a category was requested), both while the cascade runs and
\* once it has ended.
C1_CascadeOrder ==
  \A a \in Started :
    LET f == Frame(a)
    IN  /\ \A i, j \in 1..Len(f.stages) :
             i < j => StageIdx(f.stages[i].stage) < StageIdx(f.stages[j].stage)
        /\ \A i \in 1..(Len(f.stages) - 1) : f.stages[i].res = "none"
        /\ \A i \in 1..Len(f.stages) : QueryIssued(f, f.stages[i].stage)
        /\ CascadeOver(a) =>
             \A s \in StageNames :
               QueriedAt(f, s) <=> (~OfferBefore(f, s) /\ RelaxedFilterInEffect(f, s))
        /\ (a = att /\ pc \in {"listing", "listing_retry"}) =>
             /\ ~QueriedAt(f, stage)
             /\ \A s \in StageNames :
                  StageIdx(s) < StageIdx(stage) =>
                    (QueriedAt(f, s) <=> RelaxedFilterInEffect(f, s))

\* C1 witness: a cascade that went through all four stages and found its offer
\* at the last one
C1_Witness ==
  \E a \in Started :
    /\ CascadeOver(a)
    /\ Len(Frame(a).stages) = 4
    /\ Frame(a).stages[4].res = "listing"

\* C2 as stated: with the credential configured, a call of
\* fetch_snapshot_by_params that has ended has returned a snapshot.
C2_NeverRaises ==
  (IsResolverCall /\ apiKey # "" /\ pc = "done") => outcome.kind = "returned"

\* C3 as stated: no cascade stage issues more than two GET /listings (one
\* sleep, then at most one more attempt).
C3_BoundedRetry == IsResolverCall => reqs <= 2

\* C4: with the credential missing no HTTP request is ever issued, the call
\* never gets past its first request site, never returns a value, and when it
\* has ended it has ended in the configuration error.
C4_ConfigErrorBeforeRequest ==
  apiKey = "" =>
    /\ log = {}
    /\ pc \in {"idle", "listing", "sales", "done"}
    /\ outcome.kind \in {"none", "raised"}
    /\ pc = "done" => outcome = Raised("config")

\* C4 witness: fetch_snapshot_by_params called without a credential has ended
\* in the configuration error
C4_Witness ==
  apiKey = "" /\ IsResolverCall /\ pc = "done" /\ outcome = Raised("config")

\* the price of the offer the cascade of the call left, 0 when none
CascadePrice(c) == IF c.lowest # NoneV THEN The(c.lowest).price ELSE 0

CascadeId(c) == IF c.lowest # NoneV THEN The(c.lowest).id ELSE ""

\* C5: a failed buy-order fetch leaves highest_bid and highest_bid_qty absent,
\* a failed history aggregation leaves vol24h = 0 and asp24h = 0.0, neither
\* makes the call raise, and the snapshot's source, lowest_ask, lowest_ask_id,
\* used_category and used_wear are what the cascade produced.
C5_SubFetchIsolated ==
  \A a \in Started :
    LET f == Frame(a)
    IN  /\ f.buy_res = "raised" => f.highest_bid = NoneV /\ f.highest_bid_qty = NoneV
        /\ f.hist_res = "raised" => f.vol24h = 0 /\ f.asp24h = <<0, 1>>
        /\ (a = att /\ (f.buy_res = "raised" \/ f.hist_res = "raised")) =>
             /\ outcome.kind # "raised"
             /\ f.buy_res = "raised" => pc \in {"history", "metrics_done", "done"}
             /\ f.hist_res = "raised" => pc \in {"metrics_done", "done"}
        /\ (MetricsOver(a) /\ (f.buy_res = "raised" \/ f.hist_res = "raised")) =>
             LET c == The(f.cascade_out)
             IN  /\ SnapOf(f).source = c.source
                 /\ SnapOf(f).lowest_ask = CascadePrice(c)
                 /\ SnapOf(f).lowest_ask_id = CascadeId(c)
                 /\ SnapOf(f).used_category = c.used_cat
                 /\ SnapOf(f).used_wear = c.used_wear

\* C5 witness: a snapshot was returned after both sub-fetches failed on an
\* offer the cascade had found
C5_Witness ==
  /\ pc = "done" /\ outcome.kind = "returned" /\ att = "primary"
  /\ Frame("primary").buy_res = "raised"
  /\ Frame("primary").hist_res = "raised"
  /\ outcome.snap.lowest_ask > 0

\* the snapshot of the call has lowest_ask = 0 and vol24h = 0
EmptySnapshot(f) ==
  (f.lowest = NoneV \/ The(f.lowest).price = 0) /\ f.vol24h = 0

Opposite(category_key) == IF category_key = "normal" THEN "stattrak" ELSE "normal"

CategoryCode(category_key) ==
  CASE category_key = "normal"   -> Some(1)
    [] category_key = "stattrak" -> Some(2)
    [] category_key = "souvenir" -> Some(3)
    [] OTHER                     -> NoneV

\* C7: the history aggregation is handed the category the caller passed and,
\* for a floatable name, the wear range the caller passed, whichever stage
\* supplied the lowest ask: for the primary call the code of the requested
\* category, for the alternate call no category.
C7_HistoryUsesRequestedFilters ==
  \A a \in Started :
    LET f == Frame(a)
    IN  f.hist_res # "n/a" =>
          /\ f.hist_cat = f.category
          /\ f.supports_float => f.hist_wear = f.requested_wear
          /\ a = "primary" => f.hist_cat = CategoryCode(args.category_key)
          /\ (a = "primary" /\ f.supports_float) =>
               f.hist_wear = IF args.wear_key = NoneS THEN NoneV
                             ELSE Some(WEAR_RANGES[args.wear_key])
          /\ a = "alt" => f.hist_cat = NoneV

\* C7 witness: the offer came from the stage that relaxed both filters, and
\* the history was still asked with the category and wear requested
C7_Witness ==
  \E a \in Started :
    /\ Frame(a).hist_res = "ok"
    /\ Frame(a).source = "name_only"
    /\ Frame(a).used_cat = NoneV /\ Frame(a).hist_cat # NoneV
    /\ Frame(a).used_wear = NoneV /\ Frame(a).hist_wear # NoneV

\* the canonical names the calls of the model can build
BuiltNames ==
  {build_market_hash_name(b, w, c) :
     b \in BaseNames, w \in CallWears, c \in CallCategories}

\* those that match the keyword denylist
DenylistedNames ==
  {n \in BuiltNames : \E k \in _NON_FLOAT_KEYWORDS : Contains(Lower(n), k)}

\* C8: for a name on the denylist no GET /listings carries min_float or
\* max_float, the history aggregation is handed and applies no wear filter,
\* and is_floatable is false in the snapshot.
C8_NoWearForNonFloatable ==
  \A a \in Started :
    LET f == Frame(a)
    IN  f.name \in DenylistedNames =>
          /\ \A q \in log :
               (q.endpoint = "listings" /\ q.market_hash_name = f.name) =>
                 q.min_float = NoneV /\ q.max_float = NoneV
          /\ f.hist_res # "n/a" =>
               f.hist_wear = NoneV /\ HistEffWear(f.name, f.hist_wear) = NoneV
          /\ ~SnapOf(f).is_floatable
          /\ (pc = "done" /\ outcome.kind = "returned" /\ a = "primary") =>
               ~outcome.snap.is_floatable

\* C8 witness: a wear key was requested for a denylisted name and the call
\* went through the stage that relaxes the category only
C8_Witness ==
  \E a \in Started :
    /\ Frame(a).name \in DenylistedNames
    /\ args.wear_key # NoneS
    /\ QueriedAt(Frame(a), "no_cat")
    /\ MetricsOver(a)

\* C9 as stated: the source of a snapshot is one of "strict", "no_wear",
\* "no_cat", "name_only", "n/a".
C9_SourceShortNames ==
  \A a \in Started :
    MetricsOver(a) =>
      SnapOf(Frame(a)).source \in {"strict", "no_wear", "no_cat", "name_only", "n/a"}

\* the label the source gives the stage
CodeLabel(s) ==
  CASE s = "strict"    -> "strict(name+cat+wear)"
    [] s = "no_wear"   -> "no_wear(name+cat)"
    [] s = "no_cat"    -> "no_cat(name+wear)"
    [] s = "name_only" -> "name_only"

\* C9 amended: the source of a snapshot is one of "strict(name+cat+wear)",
\* "no_wear(name+cat)", "no_cat(name+wear)", "name_only", naming the first
\* (and only) stage that returned an offer, or "n/a" if no stage returned one.
C9_SourceNamesStage ==
  \A a \in Started :
    MetricsOver(a) =>
      LET f   == Frame(a)
          src == SnapOf(f).source
      IN  /\ src \in {"strict(name+cat+wear)", "no_wear(name+cat)",
                      "no_cat(name+wear)", "name_only", "n/a"}
          /\ src = "n/a" <=> \A i \in 1..Len(f.stages) : f.stages[i].res # "listing"
          /\ \A i \in 1..Len(f.stages) :
               f.stages[i].res = "listing" =>
                 /\ src = CodeLabel(f.stages[i].stage)
                 /\ \A j \in 1..(i - 1) : f.stages[j].res = "none"

\* C9 witness: a snapshot whose offer came from the second stage
C9_Witness ==
  \E a \in Started :
    MetricsOver(a) /\ SnapOf(Frame(a)).source = "no_wear(name+cat)"

\* every listing query of the call so far returned no offer
AllQueriesEmpty ==
  \A a \in Started :
    \A i \in 1..Len(Frame(a).stages) : Frame(a).stages[i].res = "none"

\* C10: while every listing query returns no offer the resolver does not
\* raise and issues no buy-order request, and it returns a snapshot with
\* lowest_ask = 0.0, source = "n/a", lowest_ask_id = "" and no highest bid.
C10_NoOffersSnapshot ==
  (IsResolverCall /\ apiKey # "" /\ AllQueriesEmpty) =>
    /\ outcome.kind # "raised"
    /\ \A q \in log : q.endpoint # "buy-orders"
    /\ pc = "done" =>
         /\ outcome.kind = "returned"
         /\ outcome.snap.lowest_ask = 0
         /\ outcome.snap.source = "n/a"
         /\ outcome.snap.lowest_ask_id = ""
         /\ outcome.snap.highest_bid = NoneV
         /\ outcome.snap.highest_bid_qty = NoneV

\* C10 witness: both attempts went through all four stages without an offer
C10_Witness ==
  /\ IsResolverCall /\ pc = "done" /\ AllQueriesEmpty
  /\ fr.alt # NoneV
  /\ Len(Frame("primary").stages) = 4
  /\ Len(Frame("alt").stages) >= 2

(***************************************************************************)
(* Functions called on their own.  The call is entry, its arguments are    *)
(* args, its result is outcome; the remaining variables keep the values    *)
(* they have before any request is issued.                                 *)
(***************************************************************************)
CallOf(fn, inputs) ==
  /\ apiKey = "secret"
  /\ entry = fn
  /\ pc = "idle"
  /\ args \in inputs
  /\ att = "primary"
  /\ fr = [primary |-> NoneV, alt |-> NoneV]
  /\ stage = "strict"
  /\ reqs = 0
  /\ hattempt = 1
  /\ log = {}
  /\ outcome = [kind |-> "none"]

\* the call returns v
Return(v) ==
  /\ pc = "idle"
  /\ outcome' = Returned(v)
  /\ pc' = "done"
  /\ UNCHANGED <<apiKey, entry, args, att, fr, stage, reqs, hattempt, log>>

\* the sequences over S of length 0..n
SeqsUpTo(S, n) == UNION {[1..k -> S] : k \in 0..n}

\* the call of fn has returned
Done(fn) == entry = fn /\ pc = "done"

(***************************************************************************)
(* highest_bid_from_orders on drawn order lists                            *)
(***************************************************************************)
\* the longest list of buy orders drawn
MaxOrders == 3

OrderPrices == {JInt(100), JInt(200), JStr("200"), JStr("abc"), JFloat(20050), JNull}

OrderQtys == {JInt(1), JInt(2)}

OrderPool == {Order(p, q) : p \in OrderPrices, q \in OrderQtys}

InitBid == CallOf("highest_bid_from_orders", [orders : SeqsUpTo(OrderPool, MaxOrders)])

CallHighestBid == Return(highest_bid_from_orders(args.orders))

NextBid == CallHighestBid

SpecBid == InitBid /\ [][NextBid]_vars

\* the order carries a price that is a number: a JSON number, or text that
\* reads as one
HasNumericPrice(o) ==
  \/ "int" \in DOMAIN o.price
  \/ "float" \in DOMAIN o.price
  \/ "str" \in DOMAIN o.price /\ ParseInt(o.price.str) # NoneV

\* that price in hundredths of a cent
PriceHundredths(o) ==
  IF "int" \in DOMAIN o.price THEN 100 * o.price.int
  ELSE IF "float" \in DOMAIN o.price THEN o.price.float
  ELSE 100 * The(ParseInt(o.price.str))

QtyOf(o) == IF "int" \in DOMAIN o.qty THEN o.qty.int ELSE 0

\* C11 as stated: the result is the maximum price among the orders with a
\* valid numeric price and the sum of qty over exactly the orders at that
\* price; it is None when the list is empty or no order has a valid numeric
\* price
C11_HighestBid ==
  Done("highest_bid_from_orders") =>
    LET valid == SelectSeq(args.orders, HasNumericPrice)
        top   == MaxSeq([i \in 1..Len(valid) |-> PriceHundredths(valid[i])])
        qty   == SumSeq([i \in 1..Len(valid) |->
                   IF PriceHundredths(valid[i]) = top THEN QtyOf(valid[i]) ELSE 0])
    IN  IF valid = << >> THEN outcome.snap = NoneV
        ELSE /\ outcome.snap # NoneV
             /\ 100 * The(outcome.snap).bid = top
             /\ The(outcome.snap).qty = qty

(***************************************************************************)
(* compute_sales_24h_metrics on drawn sale histories: the events are what  *)
(* fetch_sales_history returned for a 200 response                         *)
(***************************************************************************)
\* the longest sale history drawn
MaxEvents == 2

SalesEventPool ==
  { Event("sold",   Ts(TRUE, 3600),  TsAbsent,       Item(FALSE, FALSE, Some(20)), JInt(2500)),
    Event(NoneS,    TsAbsent,        Ts(TRUE, 86400), Item(TRUE, FALSE, Some(50)), JInt(1000)),
    Event("Sold",   Ts(TRUE, 60),    TsAbsent,       Item(FALSE, FALSE, NoneV),    JInt(300)),
    Event("listed", Ts(TRUE, 60),    TsAbsent,       Item(FALSE, FALSE, Some(20)), JInt(2500)),
    Event("sold",   Ts(TRUE, 86401), TsAbsent,       Item(FALSE, FALSE, Some(20)), JInt(2500)),
    Event("sold",   TsBad,           Ts(FALSE, 60),  Item(FALSE, FALSE, Some(20)), JInt(2500)),
    Event("sold",   TsBad,           TsAbsent,       Item(FALSE, FALSE, Some(20)), JInt(2500)),
    Event("sold",   Ts(FALSE, 60),   Ts(TRUE, 60),   Item(FALSE, FALSE, Some(20)), JInt(2500)),
    Event("sold",   Ts(TRUE, 60),    TsAbsent,       Item(FALSE, FALSE, Some(20)), JNull),
    Event("sold",   Ts(TRUE, 60),    TsAbsent,       Item(FALSE, FALSE, Some(20)), JInt(0)),
    Event("sold",   Ts(TRUE, 0 - 30), TsAbsent,      Item(FALSE, TRUE, Some(38)),  JInt(1001)),
    Event("sold",   Ts(TRUE, 3601),  TsAbsent,       Item(FALSE, FALSE, Some(15)), JInt(700)) }

SalesInputs ==
  [name           : {"AK-47 | Redline (Field-Tested)", "Sticker | Crown"},
   wear_bucket    : {NoneV, Some(wear_bucket_range("ft"))},
   category       : {NoneV, Some(1), Some(2)},
   lookback_hours : {1, 24},
   events         : SeqsUpTo(SalesEventPool, MaxEvents)]

InitSales == CallOf("compute_sales_24h_metrics", SalesInputs)

\* the 200 response that carries the events
SalesResponse(events) == [status |-> 200, body |-> "list", key |-> "", events |-> events]

MetricsOf(a, events) ==
  compute_sales_24h_metrics(a.name, a.wear_bucket, a.category, a.lookback_hours,
                            SalesResponse(events))

CallComputeSales == Return(MetricsOf(args, args.events))

NextSales == CallComputeSales

SpecSales == InitSales /\ [][NextSales]_vars

\* the state of the event, when present, is "sold"
StateIsSold(e) == e.state \in {NoneS, ""} \/ Lower(e.state) = "sold"

\* sold_at, else created_at, is a time with a UTC offset that lies no more
\* than hours before now
InWindow(e, hours) ==
  LET ts == IF "age" \in DOMAIN e.sold_at THEN e.sold_at ELSE e.created_at
  IN  /\ "age" \in DOMAIN ts
      /\ ts.aware
      /\ ts.age <= hours * 3600

\* C12: an event whose state is present and not "sold", or whose timestamp
\* (sold_at, else created_at) is missing, unparseable, without a timezone
\* or older than lookback_hours, contributes neither to the volume nor to
\* the average price: the result counts no more events than those that
\* pass, and is the result for the history with the other events removed
C12_OnlySoldInWindow ==
  Done("compute_sales_24h_metrics") =>
    LET pass == SelectSeq(args.events,
                  LAMBDA e : StateIsSold(e) /\ InWindow(e, args.lookback_hours))
    IN  /\ outcome.snap.vol <= Len(pass)
        /\ outcome.snap = MetricsOf(args, pass)

\* a history that mixes a counted sale with events of every excluded kind
C12_Witness ==
  /\ Done("compute_sales_24h_metrics")
  /\ outcome.snap.vol = 1
  /\ Len(args.events) = 2
  /\ \E i \in 1..2 : ~StateIsSold(args.events[i])
                        \/ ~InWindow(args.events[i], args.lookback_hours)

\* the category filter of the claim: no filter, or the event's item is of
\* the category (3 souvenir, 2 StatTrak, 1 normal)
CategoryMatches(e, category) ==
  \/ category = NoneV
  \/ category = Some(3) /\ e.item.is_souvenir
  \/ category = Some(2) /\ ~e.item.is_souvenir /\ e.item.is_stattrak
  \/ category = Some(1) /\ ~e.item.is_souvenir /\ ~e.item.is_stattrak

\* the wear filter of the claim: none for a name that carries no float or
\* when no range is passed, else lo <= float_value < hi
WearMatches(e, name, wear_bucket) ==
  \/ wear_bucket = NoneV
  \/ ~_item_supports_float(name)
  \/ /\ e.item.float_value # NoneV
     /\ The(wear_bucket)[1] <= The(e.item.float_value)
     /\ The(e.item.float_value) < The(wear_bucket)[2]

\* the event passes the status, timestamp-window, category and wear filters
PassesFilters(e) ==
  /\ StateIsSold(e)
  /\ InWindow(e, args.lookback_hours)
  /\ CategoryMatches(e, args.category)
  /\ WearMatches(e, args.name, args.wear_bucket)

\* the price of the event in cents is present and positive
HasPrice(e) == "int" \in DOMAIN e.price /\ e.price.int > 0

\* [vol, asp] for a list of counted events: their number, and the sum of
\* their prices in cents divided by 100 and by their number, 0.0 for none
Aggregate(kept) ==
  LET tot == SumSeq([i \in 1..Len(kept) |-> kept[i].price.int])
  IN  [vol |-> Len(kept),
       asp |-> IF Len(kept) = 0 \/ tot = 0 THEN <<0, 1>>
               ELSE Ratio(tot, 100 * Len(kept))]

\* C13 as stated: the volume is the number of events retained by the status,
\* timestamp-window, category and wear filters and the average price is the
\* sum of their prices in cents / 100 / volume, 0.0 when the volume is 0
C13_MetricsOfFiltered ==
  Done("compute_sales_24h_metrics") =>
    LET kept == SelectSeq(args.events, PassesFilters)
    IN  /\ outcome.snap.vol = Len(kept)
        /\ outcome.snap.asp =
             (IF Len(kept) = 0 THEN <<0, 1>>
              ELSE Ratio(SumSeq([i \in 1..Len(kept) |-> _as_int(kept[i].price, 0)]),
                         100 * Len(kept)))

\* C13 amended: the events counted are those retained by the four filters
\* whose price is present and positive; the volume is their number and the
\* average price the sum of their prices in cents / 100 / volume, 0.0 when
\* the volume is 0
C13_MetricsOfFilteredPriced ==
  Done("compute_sales_24h_metrics") =>
    outcome.snap =
      Aggregate(SelectSeq(args.events, LAMBDA e : PassesFilters(e) /\ HasPrice(e)))

\* two counted sales at different prices next to nothing else
C13_Witness ==
  /\ Done("compute_sales_24h_metrics")
  /\ outcome.snap.vol = 2
  /\ outcome.snap.asp = <<35, 2>>

(***************************************************************************)
(* The wear test of compute_sales_24h_metrics on drawn float values and    *)
(* wear keys                                                               *)
(***************************************************************************)
\* the float values of [0, 1] in hundredths; every limit of WEAR_RANGES is
\* one of them
FloatValues == 0..100

InitWear == CallOf("_wear_ok", [key : WearKeys, fv : FloatValues])

\* the item of a sale event with the float value fv
ItemWithFloat(fv) == Item(FALSE, FALSE, Some(fv))

CallWearOk ==
  Return(_wear_ok(ItemWithFloat(args.fv), Some(wear_bucket_range(args.key))))

NextWear == CallWearOk

SpecWear == InitWear /\ [][NextWear]_vars

\* the range of the key as the claim reads it: [lo, hi), and [lo, 1.0] for bs
InRangeClosedTop(key, fv) ==
  /\ WEAR_RANGES[key][1] <= fv
  /\ fv < WEAR_RANGES[key][2] \/ (key = "bs" /\ fv = 100)

\* the wear keys whose wear test accepts fv
AcceptingKeys(fv) ==
  {k \in WearKeys : _wear_ok(ItemWithFloat(fv), Some(wear_bucket_range(k)))}

\* C14 as stated: the wear test for a key accepts a float value of [0, 1]
\* exactly when it lies in the key's range, half-open except for bs, which
\* is closed at 1.0; every float value of [0, 1] is accepted for exactly one
\* key
C14_WearPartition ==
  Done("_wear_ok") =>
    /\ outcome.snap = InRangeClosedTop(args.key, args.fv)
    /\ Cardinality(AcceptingKeys(args.fv)) = 1

(***************************************************************************)
(* build_market_hash_name on drawn base names, and once more on the name   *)
(* it built                                                                *)
(***************************************************************************)
BuildNames ==
  {"AK-47 | Redline", "AK-47 | Case Hardened", "AK-47 | Redline (Field-Tested)",
   "StatTrak# AK-47 | Redline", "Souvenir AK-47 | Redline",
   "Karambit | Doppler", "* Karambit | Doppler", "* StatTrak# Karambit | Doppler",
   "Flip Knife | Fade", "StatTrak# Flip Knife | Fade",
   "Sport Gloves | Vice", "* Hand Wraps | Slaughter",
   "Music Kit | Zen", "Sticker | Crown", "Operation Bravo Case"}

BuildWears == {NoneS, "fn", "ft", "bs"}

BuildCategories == {NoneS, "normal", "stattrak", "souvenir"}

InitBuild ==
  CallOf("build_market_hash_name",
         [base_name : BuildNames, wear_key : BuildWears, category_key : BuildCategories])

\* build(x, w, c)
CallBuild ==
  /\ entry = "build_market_hash_name"
  /\ pc = "idle"
  /\ outcome' = Returned(<<build_market_hash_name(args.base_name, args.wear_key,
                                                  args.category_key)>>)
  /\ pc' = "built"
  /\ UNCHANGED <<apiKey, entry, args, att, fr, stage, reqs, hattempt, log>>

\* build(build(x, w, c), w, c)
CallBuildAgain ==
  /\ entry = "build_market_hash_name"
  /\ pc = "built"
  /\ outcome' = Returned(<<outcome.snap[1],
                           build_market_hash_name(outcome.snap[1], args.wear_key,
                                                  args.category_key)>>)
  /\ pc' = "done"
  /\ UNCHANGED <<apiKey, entry, args, att, fr, stage, reqs, hattempt, log>>

NextBuild == CallBuild \/ CallBuildAgain

SpecBuild == InitBuild /\ [][NextBuild]_vars

\* C15 as stated: build(build(x, w, c), w, c) = build(x, w, c) for every base
\* name x of every family, wear key w and category c
C15_BuildIdempotent ==
  Done("build_market_hash_name") => outcome.snap[2] = outcome.snap[1]

\* how many times k occurs in s
CountOcc(s, k) ==
  Cardinality({i \in 1..(Len(s) - Len(k) + 1) : SubSeq(s, i, i + Len(k) - 1) = k})

\* x is classified into a star-prefixed family
StarFamily(x) == _infer_family(Strip(x)).has_star_prefix

\* StatTrak is requested and the family of x allows it
StatTrakApplies(x, category) ==
  category # NoneS /\ Lower(category) = "stattrak"
    /\ _infer_family(Strip(x)).allows_stattrak

\* r, built from x, begins with the star; if StatTrak applies the marker
\* occurs once, as the token right after the star
StarThenMarker(x, category, r) ==
  StarFamily(x) =>
    /\ StartsWith(r, STAR)
    /\ StatTrakApplies(x, category) =>
         /\ CountOcc(r, STATTRAK) = 1
         /\ StartsWith(r, STAR \o " " \o STATTRAK \o " ")

C18_FloatabilityAgrees ==
  (IsResolverCall /\ "primary" \in Started
     /\ _infer_family(Strip(args.base_name)).supports_wear) =>
    LET f     == Frame("primary")
        range == wear_bucket_range(args.wear_key)
    IN  /\ f.supports_float
        /\ SnapOf(f).is_floatable
        /\ args.wear_key # NoneS =>
             /\ f.wear_bucket = Some(range)
             /\ QueriedAt(f, "strict") =>
                  \E q \in log : /\ q.endpoint = "listings"
                                 /\ q.market_hash_name = f.name
                                 /\ q.min_float = Some(range[1])
                                 /\ q.max_float = Some(range[2])
             /\ f.hist_res # "n/a" =>
                  /\ f.hist_wear = Some(range)
                  /\ HistEffWear(f.name, f.hist_wear) = Some(range)

(***************************************************************************)
(* iter_listings called on its own and read to its end.  fr.primary holds  *)
(* its locals cursor and pages, the pages it yielded rows from (read: the  *)
(* cursor asked with, the rows, the X-Next-Cursor header) and whether      *)
(* every response so far was a page with rows and a next cursor (steady).  *)
(***************************************************************************)
\* the largest max_pages drawn
MaxPages == 3

\* the X-Next-Cursor header: absent, empty, or a cursor
NextCursors == {NoneS, "", "c1", "c2"}

PageRowLists ==
  { << >>, << Row("L1", JInt(1500)) >>, << Row("L2", JInt(1700)), Row("L3", JNull) >> }

PageResponses ==
  [status : ErrorStatuses, body : {"text"}, payload : {NoPayload}, next : {NoneS}]
  \cup [status : {200}, body : {"badjson"}, payload : {NoPayload}, next : {"c1"}]
  \cup [status : {200}, body : {"json"},
        payload : [shape : {"list"}, key : {""}, rows : PageRowLists]
                  \cup [shape : {"dict"}, key : {"data", "error"},
                        rows : {<< Row("L1", JInt(1500)) >>}],
        next : NextCursors]

InitPages ==
  /\ apiKey \in ApiKeys
  /\ entry = "iter_listings"
  /\ pc = "page"
  /\ args \in [market_hash_name : {"AK-47 | Redline"}, max_pages : 0..MaxPages]
  /\ att = "primary"
  /\ fr = [primary |-> Some([cursor |-> NoneS, pages |-> 0, read |-> << >>,
                             steady |-> TRUE]),
           alt |-> NoneV]
  /\ stage = "strict"
  /\ reqs = 0
  /\ hattempt = 1
  /\ log = {}
  /\ outcome = [kind |-> "none"]

\* request_params of one GET /listings (lines 99-104, 121-123)
PageParams(name, cursor) ==
  [endpoint |-> "listings", market_hash_name |-> name, sort_by |-> "lowest_price",
   limit |-> 50, cursor |-> cursor]

RECURSIVE RowsOf(_)
\* the rows yielded, page after page
RowsOf(read) == IF read = << >> THEN << >> ELSE Head(read).rows \o RowsOf(Tail(read))

\* the response is a page with rows and a next cursor
SteadyPage(resp) ==
  /\ resp.status = 200
  /\ resp.body = "json"
  /\ _extract_rows(resp.payload) # << >>
  /\ resp.next \notin {NoneS, ""}

\* line 173 with a limit that is only passed when exceeded
StopAfterPageLate(cursor, pages, max_pages) == cursor = NoneS \/ pages > max_pages

\* line 173: "if not cursor or pages >= max_pages: return"
StopAfterPage(cursor, pages, max_pages) == cursor = NoneS \/ pages >= max_pages

\* lines 145-174 on the response the status checks let through
PageTaken(resp) ==
  LET f      == [Cur EXCEPT !.steady = Cur.steady /\ SteadyPage(resp)]
      rows   == _extract_rows(resp.payload)
      cursor == IF resp.next \in {NoneS, ""} THEN NoneS ELSE resp.next
      g      == [f EXCEPT !.cursor = cursor, !.pages = f.pages + 1,
                          !.read = Append(f.read, [asked |-> f.cursor, rows |-> rows,
                                                   next |-> cursor])]
  IN  IF RaisesForStatus(resp.status)
        THEN /\ fr' = [fr EXCEPT !.primary = Some(f)]
             /\ outcome' = Raised("http")
             /\ pc' = "done"
      ELSE IF resp.body = "badjson" \/ rows = << >>
        THEN /\ fr' = [fr EXCEPT !.primary = Some(f)]
             /\ outcome' = ReturnedList(RowsOf(f.read))
             /\ pc' = "done"
      ELSE /\ fr' = [fr EXCEPT !.primary = Some(g)]
           /\ IF StopAfterPage(g.cursor, g.pages, args.max_pages)
                THEN outcome' = ReturnedList(RowsOf(g.read)) /\ pc' = "done"
                ELSE UNCHANGED outcome /\ pc' = "page"

\* one pass of the loop of iter_listings up to the first response
\* (lines 120-143)
PageGet ==
  /\ pc = "page"
  /\ IF ~require_config(apiKey)
       THEN /\ outcome' = Raised("config")
            /\ pc' = "done"
            /\ UNCHANGED <<fr, reqs, log>>
       ELSE \E resp \in PageResponses :
              /\ resp.status = 429 => reqs < MaxRateLimited
              /\ log' = log \cup {PageParams(args.market_hash_name, Cur.cursor)}
              /\ IF resp.status = 429
                   THEN /\ reqs' = reqs + 1
                        /\ fr' = [fr EXCEPT !.primary = Some([Cur EXCEPT !.steady = FALSE])]
                        /\ UNCHANGED <<pc, outcome>>
                 ELSE IF 500 <= resp.status /\ resp.status < 600
                   THEN /\ pc' = "page_retry"
                        /\ reqs' = 0
                        /\ fr' = [fr EXCEPT !.primary = Some([Cur EXCEPT !.steady = FALSE])]
                        /\ UNCHANGED outcome
                 ELSE PageTaken(resp) /\ reqs' = 0
  /\ UNCHANGED <<apiKey, entry, args, att, stage, hattempt>>

\* the second GET after a 5xx (line 143)
PageRetry ==
  /\ pc = "page_retry"
  /\ IF ~require_config(apiKey)
       THEN /\ outcome' = Raised("config")
            /\ pc' = "done"
            /\ UNCHANGED <<fr, log>>
       ELSE \E resp \in PageResponses :
              /\ log' = log \cup {PageParams(args.market_hash_name, Cur.cursor)}
              /\ PageTaken(resp)
  /\ UNCHANGED <<apiKey, entry, args, att, stage, reqs, hattempt>>

NextPages == PageGet \/ PageRetry

SpecPages == InitPages /\ [][NextPages]_vars

\* the locals of the call of iter_listings
Iter == The(fr.primary)

\* iter_listings has not ended: it is about to issue a GET
IterRunning == entry = "iter_listings" /\ pc \in {"page", "page_retry"}

\* the pagination of the claim with the page-count ceiling n:
\* rows are yielded from at most n pages, none of them empty; each page is
\* asked for with the cursor the page before it gave, the first with none;
\* no GET is issued after a page without a next cursor or after the n-th
\* page; and when the API key is set and every response was a page with rows
\* and a next cursor the call returns after exactly n pages
Paginates(n) ==
  LET read == Iter.read
  IN  /\ Len(read) <= n
      /\ Iter.pages = Len(read)
      /\ \A i \in 1..Len(read) :
           /\ read[i].rows # << >>
           /\ read[i].asked = IF i = 1 THEN NoneS ELSE read[i - 1].next
      /\ \A q \in log : q.cursor \in {NoneS} \cup {read[i].next : i \in 1..Len(read)}
      /\ (IterRunning /\ read # << >>) =>
           read[Len(read)].next # NoneS /\ Len(read) < n
      /\ (Done("iter_listings") /\ apiKey # "" /\ Iter.steady) =>
           /\ outcome = ReturnedList(RowsOf(read))
           /\ Len(read) = n

\* C17 as stated: the ceiling is max_pages
C17_AtMostMaxPages == entry = "iter_listings" => Paginates(args.max_pages)

\* C17 amended: the ceiling is max_pages, and 1 when max_pages is below 1
\* (the first page is read before pages is compared with max_pages)
C17_AtMostMaxPagesOrOne ==
  entry = "iter_listings" => Paginates(Max(args.max_pages, 1))

\* two pages with rows and a next cursor were read under max_pages = 2 and
\* the call returned their rows
C17_Witness ==
  /\ Done("iter_listings")
  /\ args.max_pages = 2
  /\ Iter.steady
  /\ Len(Iter.read) = 2
  /\ Iter.read[2].asked = Iter.read[1].next
  /\ outcome.kind = "returned_list"
====
